---- MODULE Spec2Model ----
(***************************************************************************)
(* Model of PrakherSri/flask_api_for_calling_llm:                          *)
(*   - PDFQuestionAnswering.chunk_text          (src/pdf_qa_script.py)     *)
(*   - PDFQuestionAnswering.extract_text_from_pdf, ask_question,           *)
(*     ask_question_with_chunking               (src/pdf_qa_script.py)     *)
(*   - the /process endpoint                    (src/app.py)               *)
(* Strings are sequences of one-character strings, so that split, strip    *)
(* and join are computed and not assumed.                                  *)
(***************************************************************************)
EXTENDS Integers, Sequences, FiniteSets, TLC

VARIABLES
    \* ---- a direct call of chunk_text(text, max_length) ----
    text,          \* argument text
    max_length,    \* argument max_length
    cpc,           \* "call" before the call, "done" after it returned
    chunk_ret,     \* the returned list of chunks
    \* ---- a PDFQuestionAnswering object and one ask_question_with_chunking call ----
    pdf_text,      \* self.pdf_text
    pc,            \* "idle" | "loop" (inside the for loop) | "done" (returned)
    chunks,        \* local chunks
    i,             \* loop index of enumerate(chunks): the next chunk to score
    best_answer,   \* local best_answer
    calls,         \* chunk indices for which requests.post was issued, in order
    outcomes,      \* what the remote API answered to each of those requests
    ret,           \* the value returned by ask_question_with_chunking
    \* ---- the Flask endpoint /process ----
    request,       \* the request being handled (form fields and file)
    hf_requests,   \* requests.post calls made to the inference API
    response       \* the HTTP response returned to the caller

chunkVars == <<text, max_length, cpc, chunk_ret>>
qaVars    == <<pdf_text, pc, chunks, i, best_answer, calls, outcomes, ret>>
appVars   == <<request, hf_requests, response>>
vars      == <<text, max_length, cpc, chunk_ret,
               pdf_text, pc, chunks, i, best_answer, calls, outcomes, ret,
               request, hf_requests, response>>

-----------------------------------------------------------------------------
(* Bounds *)

MaxTextLen == 6      \* longest text handed to a direct chunk_text call
MaxL       == 4      \* largest max_length handed to a direct chunk_text call
MaxPages   == 3      \* most pages of a PDF
BigWordLen == 600    \* length of the long word on a PDF page
MaxScore   == 2      \* scores returned by the remote API are 0..MaxScore

-----------------------------------------------------------------------------
(* Strings *)

Letters    == {"a", "b"}
Whitespace == {" ", "\n"}
Chars      == Letters \cup Whitespace

IsSpace(c) == c \in Whitespace

\* the k-th smallest element of a finite set of integers
Kth(S, k) == CHOOSE x \in S : Cardinality({y \in S : y < x}) = k - 1

\* str.strip(): drop leading and trailing whitespace
Strip(s) ==
    IF \A k \in 1..Len(s) : IsSpace(s[k]) THEN <<>>
    ELSE LET first == CHOOSE k \in 1..Len(s) :
                          ~IsSpace(s[k]) /\ \A j \in 1..(k - 1) : IsSpace(s[j])
             last  == CHOOSE k \in 1..Len(s) :
                          ~IsSpace(s[k]) /\ \A j \in (k + 1)..Len(s) : IsSpace(s[j])
         IN  SubSeq(s, first, last)

\* str.split(): the maximal runs of non-whitespace characters, in order
Split(s) ==
    LET starts == {k \in 1..Len(s) : ~IsSpace(s[k]) /\ (k = 1 \/ IsSpace(s[k-1]))}
        ends   == {k \in 1..Len(s) : ~IsSpace(s[k]) /\ (k = Len(s) \/ IsSpace(s[k+1]))}
    IN  [k \in 1..Cardinality(starts) |-> SubSeq(s, Kth(starts, k), Kth(ends, k))]

\* " ".join(words)
RECURSIVE Join(_)
Join(words) ==
    IF words = <<>> THEN <<>>
    ELSE IF Len(words) = 1 THEN words[1]
    ELSE words[1] \o <<" ">> \o Join(Tail(words))

\* n copies of the character c
Rep(c, n) == [k \in 1..n |-> c]

\* all strings over Chars of length at most n
StringsUpTo(n) == UNION {[1..k -> Chars] : k \in 0..n}

\* str.split(" "): the pieces between single space characters
SplitOnSpaces(s) ==
    LET sp == {k \in 1..Len(s) : s[k] = " "}
        n  == Cardinality(sp)
        cut(j) == IF j = 0 THEN 0 ELSE IF j = n + 1 THEN Len(s) + 1 ELSE Kth(sp, j)
    IN  [j \in 1..(n + 1) |-> SubSeq(s, cut(j - 1) + 1, cut(j) - 1)]

\* the concatenation of a sequence of sequences
RECURSIVE Concat(_)
Concat(ss) == IF ss = <<>> THEN <<>> ELSE Head(ss) \o Concat(Tail(ss))

-----------------------------------------------------------------------------
(* chunk_text *)

\* the loop state before the first word (lines 79-81)
ChunkInit == [chunks |-> <<>>, current_chunk |-> <<>>, current_length |-> 0]

\* ChunkStep with a new chunk that starts empty instead of [word]
ChunkStepLosesWord(st, word, L) ==
    IF st.current_length + Len(word) + 1 <= L
    THEN [chunks         |-> st.chunks,
          current_chunk  |-> Append(st.current_chunk, word),
          current_length |-> st.current_length + Len(word) + 1]
    ELSE [chunks         |-> IF st.current_chunk # <<>>
                             THEN Append(st.chunks, Join(st.current_chunk))
                             ELSE st.chunks,
          current_chunk  |-> <<>>,
          current_length |-> 0]

\* ChunkStep that does not count the separating space
ChunkStepNoSeparator(st, word, L) ==
    IF st.current_length + Len(word) <= L
    THEN [chunks         |-> st.chunks,
          current_chunk  |-> Append(st.current_chunk, word),
          current_length |-> st.current_length + Len(word)]
    ELSE [chunks         |-> IF st.current_chunk # <<>>
                             THEN Append(st.chunks, Join(st.current_chunk))
                             ELSE st.chunks,
          current_chunk  |-> <<word>>,
          current_length |-> Len(word)]

\* one iteration of  for word in words  (lines 84-91)
ChunkStep(st, word, L) ==
    IF st.current_length + Len(word) + 1 <= L
    THEN [chunks         |-> st.chunks,
          current_chunk  |-> Append(st.current_chunk, word),
          current_length |-> st.current_length + Len(word) + 1]
    ELSE [chunks         |-> IF st.current_chunk # <<>>
                             THEN Append(st.chunks, Join(st.current_chunk))
                             ELSE st.chunks,
          current_chunk  |-> <<word>>,
          current_length |-> Len(word)]

\* the loop state after the first n words
RECURSIVE ChunkLoop(_, _, _)
ChunkLoop(words, n, L) ==
    IF n = 0 THEN ChunkInit
    ELSE ChunkStep(ChunkLoop(words, n - 1, L), words[n], L)

\* chunk_text(text, max_length), with the final flush (lines 93-96)
chunk_text(t, L) ==
    LET words == Split(t)
        st    == ChunkLoop(words, Len(words), L)
    IN  IF st.current_chunk # <<>>
        THEN Append(st.chunks, Join(st.current_chunk))
        ELSE st.chunks

-----------------------------------------------------------------------------
(* Values shared by the specifications *)

NoReturn == [unset |-> TRUE]          \* nothing returned yet
Sentinel == [answer |-> "No answer found", score |-> 0]

QaIdle ==
    /\ pdf_text = <<>>
    /\ pc = "idle"
    /\ chunks = <<>>
    /\ i = 0
    /\ best_answer = Sentinel
    /\ calls = <<>>
    /\ outcomes = <<>>
    /\ ret = NoReturn

ChunkIdle ==
    /\ text = <<>>
    /\ max_length = 1
    /\ cpc = "call"
    /\ chunk_ret = <<>>

AppIdle ==
    /\ request = NoReturn
    /\ hf_requests = <<>>
    /\ response = NoReturn

-----------------------------------------------------------------------------
(* Specification of a direct call of chunk_text *)

InitChunk ==
    /\ text \in StringsUpTo(MaxTextLen)
    /\ max_length \in 1..MaxL
    /\ cpc = "call"
    /\ chunk_ret = <<>>
    /\ QaIdle
    /\ AppIdle

CallChunkText ==
    /\ cpc = "call"
    /\ chunk_ret' = chunk_text(text, max_length)
    /\ cpc' = "done"
    /\ UNCHANGED <<text, max_length>>
    /\ UNCHANGED qaVars
    /\ UNCHANGED appVars

NextChunk == CallChunkText

SpecChunk == InitChunk /\ [][NextChunk]_vars

-----------------------------------------------------------------------------
(* Properties of chunk_text, checked under SpecChunk *)

WordsOfChunks == Concat([k \in 1..Len(chunk_ret) |-> SplitOnSpaces(chunk_ret[k])])

\* C1: the returned chunks partition the whitespace-separated words of the
\* text: splitting every chunk on spaces and concatenating the pieces in
\* chunk order gives exactly text.split(); every chunk holds at least one
\* (non-empty) word; a text without words gives no chunk.
C1_ChunksPartitionWords ==
    cpc = "done" =>
        /\ WordsOfChunks = Split(text)
        /\ \A k \in 1..Len(chunk_ret) :
              /\ chunk_ret[k] # <<>>
              /\ \A j \in DOMAIN SplitOnSpaces(chunk_ret[k]) :
                    SplitOnSpaces(chunk_ret[k])[j] # <<>>
        /\ (Split(text) = <<>> => chunk_ret = <<>>)

\* a call that returned several chunks, one of them with several words, for a
\* text with leading whitespace and a newline between words
C1_Witness ==
    /\ cpc = "done"
    /\ Len(chunk_ret) >= 2
    /\ \E k \in 1..Len(chunk_ret) : Len(SplitOnSpaces(chunk_ret[k])) >= 2
    /\ Len(text) >= 1 /\ IsSpace(text[1])
    /\ \E k \in 1..Len(text) : text[k] = "\n"
    /\ \E k \in 1..Len(text) : text[k] = "a"
    /\ \E k \in 1..Len(text) : text[k] = "b"

\* C2: every returned chunk is at most max_length characters long, unless it
\* is a single word that is itself longer than max_length.
C2_ChunkLengthBounded ==
    cpc = "done" =>
        \A k \in 1..Len(chunk_ret) :
            \/ Len(chunk_ret[k]) <= max_length
            \/ Len(SplitOnSpaces(chunk_ret[k])) = 1

\* a call that returned a chunk of several words that is exactly max_length long
C2_Witness ==
    /\ cpc = "done"
    /\ \E k \in 1..Len(chunk_ret) :
          /\ Len(SplitOnSpaces(chunk_ret[k])) >= 2
          /\ Len(chunk_ret[k]) = max_length

\* a call that returned a single word longer than max_length as a chunk
C2_OversizedReached ==
    /\ cpc = "done"
    /\ \E k \in 1..Len(chunk_ret) : Len(chunk_ret[k]) > max_length

\* C10: chunk_text is greedy-maximal for every chunk: every chunk but the
\* last, joined by one space to the first word of the next chunk, is strictly
\* longer than max_length (the first chunk included).
C10_GreedyMaximal ==
    cpc = "done" =>
        \A k \in 1..(Len(chunk_ret) - 1) :
            Len(chunk_ret[k]) + 1 + Len(SplitOnSpaces(chunk_ret[k + 1])[1]) > max_length

-----------------------------------------------------------------------------
(* PDFQuestionAnswering: extract_text_from_pdf, ask_question,              *)
(* ask_question_with_chunking                                              *)

DefaultMaxLength == 1000     \* chunk_text's default max_length

BigWord == Rep("a", BigWordLen)

\* what page.extract_text() may return for a page
PageTexts == { <<>>, BigWord, <<" ", "a", " ", "b">> }

\* a PDF: its pages' texts
Pdfs == UNION {[1..n -> PageTexts] : n \in 0..MaxPages}

\* text += page.extract_text() + "\n"  over all pages (lines 52-57)
RECURSIVE PagesText(_)
PagesText(pages) ==
    IF pages = <<>> THEN <<>>
    ELSE Head(pages) \o <<"\n">> \o PagesText(Tail(pages))

\* the extracted text without the strip
ExtractedTextNoStrip(pages) == PagesText(pages)

\* the value stored in self.pdf_text (line 59)
ExtractedText(pages) == Strip(PagesText(pages))

\* dict.get(key, default)
Get(d, key, default) == IF key \in DOMAIN d THEN d[key] ELSE default

Scores == 0..MaxScore

\* JSON bodies of a 200 response: the answer or the score may be missing
HfJson ==
    {[answer |-> "ans", score |-> sc, start |-> 0, end |-> 3] : sc \in Scores}
    \cup {[answer |-> "ans", start |-> 0, end |-> 3]}
    \cup {[score |-> sc, start |-> 0, end |-> 3] : sc \in Scores}

NoJson == [start |-> 0]

\* what requests.post may do: raise, or return a status code and a body
Outcomes ==
    {[raised |-> TRUE, status |-> 0, json |-> NoJson]}
    \cup {[raised |-> FALSE, status |-> st, json |-> NoJson] : st \in {404, 503, 500}}
    \cup {[raised |-> FALSE, status |-> 200, json |-> j] : j \in HfJson}

NoPdfError == [error |-> "No PDF text available. Please load a PDF first."]

\* ask_question makes a request unless it has no context (lines 161-165)
MakesRequest(context, pdfText) ==
    (IF context = <<>> THEN pdfText ELSE context) # <<>>

\* the dict ask_question returns when requests.post behaves as outcome
\* (lines 161-194)
ask_question(context, pdfText, outcome) ==
    IF ~MakesRequest(context, pdfText) THEN NoPdfError
    ELSE IF outcome.raised THEN [error |-> "Error making API request"]
    ELSE IF outcome.status = 200
         THEN [answer |-> Get(outcome.json, "answer", "No answer found"),
               score  |-> Get(outcome.json, "score", 0),
               start  |-> Get(outcome.json, "start", 0),
               end    |-> Get(outcome.json, "end", 0)]
    ELSE IF outcome.status = 404 THEN [error |-> "Model not found"]
    ELSE IF outcome.status = 503 THEN [error |-> "Model is loading"]
    ELSE [error |-> "API request failed"]

\* the replacement test without the score comparison
ReplacesAnyScore(result, best) ==
    "error" \notin DOMAIN result

\* the replacement test with >= in place of >
ReplacesOnTie(result, best) ==
    "error" \notin DOMAIN result /\ Get(result, "score", 0) >= best.score

\* the replacement test of line 218
Replaces(result, best) ==
    "error" \notin DOMAIN result /\ Get(result, "score", 0) > best.score

\* best_answer = result; best_answer["chunk_index"] = i  (lines 219-220)
WithChunkIndex(result, idx) ==
    [k \in DOMAIN result \cup {"chunk_index"} |->
        IF k = "chunk_index" THEN idx ELSE result[k]]

InitQa ==
    /\ QaIdle
    /\ ChunkIdle
    /\ AppIdle

\* extract_text_from_pdf: on success self.pdf_text is replaced, on an
\* exception (unreadable file or page) it is left as it was (lines 49-65)
ExtractTextFromPdf ==
    /\ pc = "idle"
    /\ \E pages \in Pdfs, ok \in BOOLEAN :
          pdf_text' = IF ok THEN ExtractedText(pages) ELSE pdf_text
    /\ UNCHANGED <<pc, chunks, i, best_answer, calls, outcomes, ret>>
    /\ UNCHANGED chunkVars
    /\ UNCHANGED appVars

\* ask_question_with_chunking up to the loop (lines 206-212)
AskBegin ==
    /\ pc = "idle"
    /\ IF pdf_text = <<>>
       THEN /\ ret' = NoPdfError
            /\ pc' = "done"
            /\ UNCHANGED <<chunks, i, best_answer>>
       ELSE /\ chunks' = chunk_text(pdf_text, DefaultMaxLength)
            /\ best_answer' = Sentinel
            /\ i' = 0
            /\ pc' = "loop"
            /\ UNCHANGED ret
    /\ UNCHANGED <<pdf_text, calls, outcomes>>
    /\ UNCHANGED chunkVars
    /\ UNCHANGED appVars

\* a loop body that leaves the loop on an error result
ScoreChunkAbortsOnError(outcome) ==
    /\ pc = "loop"
    /\ i < Len(chunks)
    /\ LET result == ask_question(chunks[i + 1], pdf_text, outcome)
       IN  /\ calls' = IF MakesRequest(chunks[i + 1], pdf_text)
                       THEN Append(calls, i) ELSE calls
           /\ outcomes' = Append(outcomes, outcome)
           /\ best_answer' = IF Replaces(result, best_answer)
                             THEN WithChunkIndex(result, i)
                             ELSE best_answer
           /\ i' = IF "error" \in DOMAIN result THEN Len(chunks) ELSE i + 1
    /\ UNCHANGED <<pdf_text, pc, chunks, ret>>
    /\ UNCHANGED chunkVars
    /\ UNCHANGED appVars

\* a loop body that sets chunk_index outside the if
ScoreChunkAlwaysIndexes(outcome) ==
    /\ pc = "loop"
    /\ i < Len(chunks)
    /\ LET result == ask_question(chunks[i + 1], pdf_text, outcome)
       IN  /\ calls' = IF MakesRequest(chunks[i + 1], pdf_text)
                       THEN Append(calls, i) ELSE calls
           /\ outcomes' = Append(outcomes, outcome)
           /\ best_answer' = IF Replaces(result, best_answer)
                             THEN WithChunkIndex(result, i)
                             ELSE WithChunkIndex(best_answer, i)
           /\ i' = i + 1
    /\ UNCHANGED <<pdf_text, pc, chunks, ret>>
    /\ UNCHANGED chunkVars
    /\ UNCHANGED appVars

\* one iteration of  for i, chunk in enumerate(chunks)  (lines 214-220)
ScoreChunk(outcome) ==
    /\ pc = "loop"
    /\ i < Len(chunks)
    /\ LET result == ask_question(chunks[i + 1], pdf_text, outcome)
       IN  /\ calls' = IF MakesRequest(chunks[i + 1], pdf_text)
                       THEN Append(calls, i) ELSE calls
           /\ outcomes' = Append(outcomes, outcome)
           /\ best_answer' = IF Replaces(result, best_answer)
                             THEN WithChunkIndex(result, i)
                             ELSE best_answer
           /\ i' = i + 1
    /\ UNCHANGED <<pdf_text, pc, chunks, ret>>
    /\ UNCHANGED chunkVars
    /\ UNCHANGED appVars

\* the loop is exhausted: return best_answer (line 222)
AskReturn ==
    /\ pc = "loop"
    /\ i = Len(chunks)
    /\ ret' = best_answer
    /\ pc' = "done"
    /\ UNCHANGED <<pdf_text, chunks, i, best_answer, calls, outcomes>>
    /\ UNCHANGED chunkVars
    /\ UNCHANGED appVars

\* the caller is done with the result; the call's locals are gone and the
\* object keeps its pdf_text (lines 248-256, 286-296)
NextQuestion ==
    /\ pc = "done"
    /\ pc' = "idle"
    /\ chunks' = <<>>
    /\ i' = 0
    /\ best_answer' = Sentinel
    /\ calls' = <<>>
    /\ outcomes' = <<>>
    /\ ret' = NoReturn
    /\ UNCHANGED pdf_text
    /\ UNCHANGED chunkVars
    /\ UNCHANGED appVars

Next ==
    \/ ExtractTextFromPdf
    \/ AskBegin
    \/ \E outcome \in Outcomes : ScoreChunk(outcome)
    \/ AskReturn
    \/ NextQuestion

Spec == InitQa /\ [][Next]_vars

-----------------------------------------------------------------------------
(* Properties of ask_question_with_chunking, checked under Spec *)

\* the candidate the k-th scored chunk produced
Candidate(k) == ask_question(chunks[k], pdf_text, outcomes[k])

ErrorAt(k) == "error" \in DOMAIN Candidate(k)

Scored == 1..Len(outcomes)

\* the call went through its loop and returned
Searched == pc = "done" /\ ret # NoPdfError

\* C3: when some chunk succeeds with a score above 0, the result is the
\* candidate with the greatest score among the non-error candidates, and its
\* chunk_index is the lowest chunk index attaining that score.
C3_BestIsFirstMaximum ==
    (Searched /\ \E k \in Scored : ~ErrorAt(k) /\ Candidate(k).score > 0) =>
        LET ok == {k \in Scored : ~ErrorAt(k)}
            m  == CHOOSE k \in ok :
                      /\ \A j \in ok : Candidate(j).score <= Candidate(k).score
                      /\ \A j \in ok : j < k => Candidate(j).score < Candidate(k).score
        IN  /\ ret = WithChunkIndex(Candidate(m), m - 1)
            /\ ret.score = Candidate(m).score
            /\ ret.chunk_index = m - 1

\* three chunks scored, the last two tie on the greatest score, the earlier wins
C3_Witness ==
    /\ Searched
    /\ Len(outcomes) = 3
    /\ ~ErrorAt(1) /\ ~ErrorAt(2) /\ ~ErrorAt(3)
    /\ Candidate(1).score = 1
    /\ Candidate(2).score = 2
    /\ Candidate(3).score = 2
    /\ ret.chunk_index = 1

\* C4: the scoring collaborator is called once per chunk, in increasing chunk
\* index order, with no retry and no early exit, whatever the calls return.
C4_EveryChunkScoredOnceInOrder ==
    /\ pc # "idle" => /\ calls = [k \in 1..i |-> k - 1]
                      /\ Len(outcomes) = i
                      /\ i <= Len(chunks)
    /\ Searched => /\ i = Len(chunks)
                   /\ calls = [k \in 1..Len(chunks) |-> k - 1]

\* three chunks, the first two calls fail in different ways, all three are made
C4_Witness ==
    /\ Searched
    /\ Len(chunks) = 3
    /\ outcomes[1].raised
    /\ ~outcomes[2].raised /\ outcomes[2].status = 503
    /\ ~ErrorAt(3)
    /\ calls = <<0, 1, 2>>

\* C5 as stated: the sentinel is returned only if every chunk's call returned
\* an error; once a chunk was scored successfully the result is not the sentinel.
C5_SentinelOnlyIfAllErrors ==
    Searched =>
        /\ ret = Sentinel => \A k \in Scored : ErrorAt(k)
        /\ (\E k \in Scored : ~ErrorAt(k)) => ret # Sentinel

\* C5 amended: the sentinel is returned exactly when no chunk was scored
\* successfully with a score greater than 0; once a chunk was scored
\* successfully with a score greater than 0 the result is a real candidate.
C5_SentinelIffNoPositiveScore ==
    Searched =>
        /\ ret = Sentinel <=> \A k \in Scored : ErrorAt(k) \/ Candidate(k).score <= 0
        /\ (\E k \in Scored : ~ErrorAt(k) /\ Candidate(k).score > 0) =>
              /\ ret # Sentinel
              /\ \E k \in Scored : ~ErrorAt(k) /\ ret = WithChunkIndex(Candidate(k), k - 1)

\* every chunk was scored successfully, with score 0, and the sentinel is returned
C5_Witness ==
    /\ Searched
    /\ Len(outcomes) >= 2
    /\ \A k \in Scored : ~ErrorAt(k) /\ Candidate(k).score = 0
    /\ ret = Sentinel

\* the text holds no word, so that chunk_text gives no chunk
HasNoWord(s) == \A k \in 1..Len(s) : IsSpace(s[k])

\* C6: a call that processes no chunk (pdf_text empty, or pdf_text without any
\* word) returns the "No PDF text available" error and calls the scoring
\* collaborator zero times; it never returns the sentinel.
C6_NoChunkMeansNoPdfError ==
    /\ (pc = "done" /\ (pdf_text = <<>> \/ HasNoWord(pdf_text) \/ outcomes = <<>>)) =>
          /\ ret = NoPdfError
          /\ calls = <<>>
          /\ ret # Sentinel
    /\ (pc = "loop" => chunks # <<>>)

\* a call on an object whose pdf_text is empty has returned the error
C6_Witness ==
    /\ pc = "done"
    /\ pdf_text = <<>>
    /\ ret = NoPdfError
    /\ calls = <<>>

\* C8: an error outcome never replaces the best answer: when every call
\* returned an error the result is exactly the sentinel, without chunk_index;
\* the result has a chunk_index exactly when a candidate replaced the sentinel.
C8_ErrorsNeverReplace ==
    /\ pc = "loop" => "error" \notin DOMAIN best_answer
    /\ Searched =>
          /\ "error" \notin DOMAIN ret
          /\ (\A k \in Scored : ErrorAt(k)) =>
                (ret = Sentinel /\ DOMAIN ret = {"answer", "score"})
          /\ "chunk_index" \in DOMAIN ret <=>
                \E k \in Scored : ~ErrorAt(k) /\ Candidate(k).score > Sentinel.score
          /\ "chunk_index" \in DOMAIN ret => ~ErrorAt(ret.chunk_index + 1)

\* three chunks, every call returned an error, the sentinel is returned
C8_Witness ==
    /\ Searched
    /\ Len(outcomes) = 3
    /\ \A k \in Scored : ErrorAt(k)
    /\ outcomes[1].status = 404 /\ outcomes[2].status = 503 /\ outcomes[3].raised
    /\ ret = Sentinel

-----------------------------------------------------------------------------
(* The Flask endpoint /process (src/app.py) *)

HUGGINGFACE_API_URL == "https://api-inference.huggingface.co/models/"

None == "None"                 \* Python's None, as request.form.get returns it

\* the form field names the handler reads, and those its API doc declares
ReadFields       == {"hf_model", "hf_token", "prompt"}
DocumentedFields == {"model", "token", "prompt"}
FieldNames       == ReadFields \cup DocumentedFields

FieldValues == {"", "x", "y"}

\* the uploaded file: absent, or present with bytes that decode as UTF-8 or not
Files ==
    {[present |-> FALSE, utf8 |-> TRUE,  content |-> ""],
     [present |-> TRUE,  utf8 |-> TRUE,  content |-> ""],
     [present |-> TRUE,  utf8 |-> TRUE,  content |-> "ctx"],
     [present |-> TRUE,  utf8 |-> FALSE, content |-> ""]}

\* request.form.get(name)
FormGet(form, name) == IF name \in DOMAIN form THEN form[name] ELSE None

\* truthiness of an optional string
Truthy(v) == v # None /\ v # ""

\* the check rejecting only absent fields, not empty ones
MissingRequiredNoneOnly(model, prompt) == model = None \/ prompt = None

\* if not model or not prompt  (line 64)
MissingRequired(model, prompt) == ~Truthy(model) \/ ~Truthy(prompt)

\* the payload built at lines 70-84
Payload(prompt, context) ==
    IF context = "" THEN [question |-> prompt]
    ELSE [question |-> prompt, context |-> context]

\* the response for what requests.post did (lines 93-114)
Relay(outcome) ==
    IF outcome.raised
    THEN [status |-> 500, body |-> [status |-> "failure", error |-> "exception"]]
    ELSE IF outcome.status = 200
         THEN [status |-> 200,
               body |-> [status |-> "success",
                         answer |-> Get(outcome.json, "answer", "No answer found"),
                         score  |-> Get(outcome.json, "score", 0),
                         start  |-> Get(outcome.json, "start", 0),
                         end    |-> Get(outcome.json, "end", 0)]]
    ELSE IF outcome.status = 404
         THEN [status |-> 200, body |-> [error |-> "Model not found"]]
    ELSE IF outcome.status = 503
         THEN [status |-> 200, body |-> [error |-> "Model is loading"]]
    ELSE [status |-> 200, body |-> [error |-> "API request failed"]]

Rejected ==
    [status |-> 400,
     body   |-> [status |-> "error", message |-> "Model and prompt are required."]]

\* file.read().decode('utf-8') raised outside the try block (line 67)
Unhandled == [status |-> 500, body |-> [status |-> "Internal Server Error"]]

InitApp ==
    /\ AppIdle
    /\ QaIdle
    /\ ChunkIdle

\* the handler of POST /process (lines 59-114)
Handle(req, outcome) ==
    /\ request' = req
    /\ LET file   == req.file
           model  == FormGet(req.form, "hf_model")
           token  == FormGet(req.form, "hf_token")
           prompt == FormGet(req.form, "prompt")
       IN  IF MissingRequired(model, prompt)
           THEN /\ response' = Rejected
                /\ UNCHANGED hf_requests
           ELSE IF file.present /\ ~file.utf8
           THEN /\ response' = Unhandled
                /\ UNCHANGED hf_requests
           ELSE /\ hf_requests' =
                      Append(hf_requests,
                             [url           |-> <<HUGGINGFACE_API_URL, model>>,
                              authorization |-> <<"Bearer ", token>>,
                              payload       |-> Payload(prompt,
                                                  IF file.present THEN file.content ELSE "")])
                /\ response' = Relay(outcome)
    /\ UNCHANGED chunkVars
    /\ UNCHANGED qaVars

\* one request arrives and is handled; what requests.post does is the
\* environment's choice
Process ==
    /\ response = NoReturn
    /\ \E D \in SUBSET FieldNames : \E form \in [D -> FieldValues] :
          \E file \in Files, outcome \in Outcomes :
              Handle([form |-> form, file |-> file], outcome)

NextApp == Process

SpecApp == InitApp /\ [][NextApp]_vars

-----------------------------------------------------------------------------
(* Properties of /process, checked under SpecApp *)

Handled == response # NoReturn

\* C7: a request whose model or prompt (as the handler reads them) is missing
\* or empty is answered 400 'Model and prompt are required.' and no request is
\* sent to the inference API, whatever the token and the file are.
C7_MissingModelOrPromptRejected ==
    (Handled /\ (\/ ~Truthy(FormGet(request.form, "hf_model"))
                 \/ ~Truthy(FormGet(request.form, "prompt")))) =>
        /\ response.status = 400
        /\ response.body.message = "Model and prompt are required."
        /\ hf_requests = <<>>

\* a request with an empty model, a prompt, a token and a file was rejected
C7_Witness ==
    /\ Handled
    /\ FormGet(request.form, "hf_model") = ""
    /\ FormGet(request.form, "prompt") = "x"
    /\ FormGet(request.form, "hf_token") = "y"
    /\ request.file.present
    /\ response = Rejected
    /\ hf_requests = <<>>

\* C9: a request with non-empty values under the documented field names
\* (model, token, prompt; a readable file or none) is not rejected as missing
\* required input and is forwarded to the inference API for that model with
\* that token as bearer credential.
C9_DocumentedFieldsAccepted ==
    (/\ Handled
     /\ \A f \in DocumentedFields : Truthy(FormGet(request.form, f))
     /\ request.file.utf8) =>
        /\ response # Rejected
        /\ Len(hf_requests) = 1
        /\ hf_requests[1].url = <<HUGGINGFACE_API_URL, request.form["model"]>>
        /\ hf_requests[1].authorization = <<"Bearer ", request.form["token"]>>

====
